---- MODULE Spec2Model ----
(***************************************************************************)
(* Model of the MS-SQL to Snowflake load job: the job driver of main.py    *)
(* and the connector functions of mssql.py.                                *)
(*                                                                         *)
(* Text is a sequence of tokens (a token is a character or an unbroken     *)
(* piece of text without "." and without "'"), so that str.split,          *)
(* str.replace and str.upper are computed and not assumed.  A Python dict  *)
(* is a sequence of <<key, value>> pairs with distinct keys, in insertion  *)
(* order.                                                                  *)
(***************************************************************************)
EXTENDS Integers, Sequences, FiniteSets, TLC

\* ------------------------------------------------------------------ bounds
MaxPairs == 2
MaxRuns == 2
MaxRows == 1200
MaxConvCols == 2

\* -------------------------------------------------------- program constants
ChunkSize == 500

\* ------------------------------------------------------------ text helpers
Range(s) == {s[i] : i \in DOMAIN s}

NoDup(s) == \A i, j \in DOMAIN s : i # j => s[i] # s[j]

StripQuotesNone(s) == s

\* str.replace("'", ""): every single quote is removed, the rest keeps its order
StripQuotes(s) == SelectSeq(s, LAMBDA c : c # "'")

\* str.split('.'): the pieces between the dots; a text without dot is one piece
RECURSIVE SplitDot(_, _, _)
SplitDot(s, cur, acc) ==
    IF s = <<>> THEN Append(acc, cur)
    ELSE IF Head(s) = "." THEN SplitDot(Tail(s), <<>>, Append(acc, cur))
    ELSE SplitDot(Tail(s), Append(cur, Head(s)), acc)

Split(s) == SplitDot(s, <<>>, <<>>)

\* str.upper() on one character: lower-case letters change, all else is kept
UpperChar(c) ==
    CASE c = "a" -> "A"
      [] c = "b" -> "B"
      [] c = "d" -> "D"
      [] c = "i" -> "I"
      [] c = "s" -> "S"
      [] c = "t" -> "T"
      [] OTHER -> c

Upper(s) == [i \in DOMAIN s |-> UpperChar(s[i])]

\* ------------------------------------------------------------ dict helpers
DictKeys(d) == [i \in DOMAIN d |-> d[i][1]]

DictHas(d, k) == \E i \in DOMAIN d : d[i][1] = k

DictGet(d, k) == d[CHOOSE i \in DOMAIN d : d[i][1] = k][2]

\* d[k] = v: an existing key keeps its position and takes the new value
DictSet(d, k, v) ==
    IF DictHas(d, k)
    THEN [i \in DOMAIN d |-> IF d[i][1] = k THEN <<k, v>> ELSE d[i]]
    ELSE Append(d, <<k, v>>)

\* ------------------------------------------------------------- Type Mapper
MappedTokens ==
    {"int", "bigint", "smallint", "tinyint", "numeric", "decimal", "float",
     "real", "money", "smallmoney", "bit", "char", "varchar", "text", "nchar",
     "nvarchar", "ntext", "date", "time", "datetime", "datetime2", "timestamp"}

sql_server_to_snowflake_mapping ==
    [t \in MappedTokens |->
        CASE t \in {"int", "bigint", "smallint", "tinyint"} -> "NUMBER"
          [] t \in {"numeric", "decimal", "float", "real"} -> "FLOAT"
          [] t \in {"money", "smallmoney"} -> "NUMBER"
          [] t = "bit" -> "BOOLEAN"
          [] t \in {"char", "varchar", "text", "nchar", "nvarchar", "ntext"} -> "STRING"
          [] t = "date" -> "DATE"
          [] t = "time" -> "TIME"
          [] t \in {"datetime", "datetime2", "timestamp"} -> "TIMESTAMP"]

MapGetOtherDefault(dataType) ==
    IF dataType \in DOMAIN sql_server_to_snowflake_mapping
    THEN sql_server_to_snowflake_mapping[dataType]
    ELSE "VARIANT"

\* dict.get(dataType, 'STRING')
MapGet(dataType) ==
    IF dataType \in DOMAIN sql_server_to_snowflake_mapping
    THEN sql_server_to_snowflake_mapping[dataType]
    ELSE "STRING"

\* the dict comprehension, item by item in the order of the input dict
RECURSIVE ConvertFrom(_, _)
ConvertFrom(items, acc) ==
    IF items = <<>> THEN acc
    ELSE ConvertFrom(Tail(items),
                     DictSet(acc, Upper(Head(items)[1]), MapGet(Head(items)[2])))

convertDatatypesFromMssqlToSf(mssqlDataTypeMappingDict) ==
    ConvertFrom(mssqlDataTypeMappingDict, <<>>)

\* ------------------------------------------------------------ configuration
\* source qualified names: two tables of one database (one of them with a
\* quote in its name), a table of a second database, and a name that is
\* no three-part name
SourceNames ==
    { <<"DB1", ".", "DBO", ".", "T1">>,
      <<"DB1", ".", "DBO", ".", "T", "'", "2">>,
      <<"DB2", ".", "DBO", ".", "T1">>,
      <<"DB1">> }

DestNames == { <<"TGT", ".", "PUB", ".", "A">>, <<"TGT", ".", "PUB", ".", "B">> }

\* the mapping dict: at most MaxPairs items, keys distinct
Mappings ==
    UNION { { m \in [1..n -> SourceNames \X DestNames] : NoDup(DictKeys(m)) }
            : n \in 0..MaxPairs }

\* the rows each source table holds: several chunks and a last partial one,
\* exactly one full chunk, or no rows at all
SourceRows(msSqlTable) ==
    CASE msSqlTable = <<"DB1", ".", "DBO", ".", "T1">> -> MaxRows
      [] msSqlTable = <<"DB2", ".", "DBO", ".", "T1">> -> ChunkSize
      [] OTHER -> 0

\* the catalog rows (COLUMN_NAME, DATA_TYPE) of an existing source table
TableColumns == << <<<<"i", "d">>, "int">>, <<<<"t", "s">>, "datetime2">> >>

\* what the destination may hold before the job: rows of an earlier load
StaleTable ==
    [exists |-> TRUE,
     cols |-> << <<"O", "L", "D">> >>,
     segs |-> << [src |-> <<"stale">>, lo |-> 1, hi |-> 7, cols |-> << <<"O", "L", "D">> >>] >>]

AbsentTable == [exists |-> FALSE, cols |-> <<>>, segs |-> <<>>]

\* ------------------------------------------------------------------- state
VARIABLES
    run,                \* number of the job run (process) in progress
    pc,                 \* position of the job driver
    mapping,            \* main.py mapping
    dest,               \* the destination tables
    snowflake_session,  \* main.py snowflake_session: "unbound" or "open"
    mssql_sessions,     \* main.py mssql_sessions: whether bound, and its keys
    opened,             \* databases getMsSqlSession was called for, in order
    idx,                \* index of the pair the for loop is at
    mssqlDataTypes,     \* main.py mssqlDataTypes
    sfDatatypes,        \* main.py sfDatatypes
    chunks,             \* the chunks the generator has yet to yield
    flag,               \* main.py flag
    exc,                \* the exception in flight, <<>> if none
    notifs,             \* SYSTEM$SEND_EMAIL calls issued in this run
    log,                \* records written to the log at WARNING and above
    stage,              \* how far each pair got in this run
    lastAppend,         \* the last save_as_table: its chunk, the column order of the
                        \* frame, of the table before the write, and as written
    ops,                \* DROP and append statements executed in this run
    prevDest            \* the destination tables as the previous run left them

vars == <<run, pc, mapping, dest, snowflake_session, mssql_sessions,
          opened, idx, mssqlDataTypes, sfDatatypes, chunks, flag, exc, notifs,
          log, stage, lastAppend, ops, prevDest>>

NoAppend ==
    [pair |-> 0, k |-> 0, snowCols |-> <<>>, destCols |-> <<>>, newColumns |-> <<>>,
     written |-> <<>>]

\* ---------------------------------------------------------------- messages
Now == "<utc now>"

SubjectFailed == <<"Snowpark Job MSSQL to SF : Failed">>

SubjectSuccess == <<"Snowpark Job MSSQL to SF : Success">>

SfConnError == <<"Snowflake Connection error : Aborting.">>

MsSqlConnError == <<"MS SQL Connection Error : Aborting.">>

SessionsError == <<"Something wrong while creating database connections. Aborting.">>

TableDataError == <<"MS SQL Table data error : Aborting.">>

DeleteError == <<"Snowflake table deletion Error : Aborting.">>

EmptyTypesError == <<"Datatype Dataframe is empty. Aborting">>

TypesError(table) ==
    <<"Something wrong while fetching datatypes of MsSql table ">> \o table \o <<": Aborting.">>

IndexError == <<"list index out of range">>

NameError == <<"name ", "'", "snowflake_session", "'", " is not defined">>

\* the text of an exception raised inside a client library
LibraryError == <<"SQL error near ", "'", "x", "'">>

ReadFailedBody(sourceTable, sourceDb) ==
    <<"Error Occured while fetching table ">> \o sourceTable \o <<" from Database ">>
        \o sourceDb \o <<".\nPlease Check Logs.\n", Now>>

DropFailedBody(sfTable) ==
    <<"Error Occured while deleting table ">> \o sfTable \o <<". Please Check Logs.\n", Now>>

SuccessBodyLess(n) ==
    <<"Successfully loaded ", ToString(n - 1), " tables from MS-SQL Server to Snowflake. \n", Now>>

SuccessBody(n) ==
    <<"Successfully loaded ", ToString(n), " tables from MS-SQL Server to Snowflake. \n", Now>>

FatalBody(e) ==
    <<"Job has failed due to reason : ">> \o e \o <<"\nPlease check logs.\n", Now>>

\* sendEmailNotif: the CALL SYSTEM$SEND_EMAIL statement it issues; delivered is
\* whether the statement succeeds (it raises otherwise)
sendEmailNotif(subject, body, delivered) ==
    [subject |-> StripQuotes(subject), body |-> StripQuotes(body), delivered |-> delivered]

\* ------------------------------------------------------- Source Connector
\* getMsSqlSessionsForDatabases: the loop over mapping.items(); failAt is the
\* number of the getMsSqlSession call that raises (none if there is no such call)
RECURSIVE SessionsLoopNoCheck(_, _, _, _)
SessionsLoopNoCheck(items, databaseSessions, calls, failAt) ==
    IF items = <<>>
    THEN [raised |-> FALSE, sessions |-> databaseSessions, calls |-> calls]
    ELSE LET sourceDatabase == Split(Head(items)[1])[1]
         IN  IF Len(calls) + 1 = failAt
             THEN [raised |-> TRUE, sessions |-> {}, calls |-> Append(calls, sourceDatabase)]
             ELSE SessionsLoopNoCheck(Tail(items), databaseSessions \cup {sourceDatabase},
                                      Append(calls, sourceDatabase), failAt)

RECURSIVE SessionsLoop(_, _, _, _)
SessionsLoop(items, databaseSessions, calls, failAt) ==
    IF items = <<>>
    THEN [raised |-> FALSE, sessions |-> databaseSessions, calls |-> calls]
    ELSE LET sourceDatabase == Split(Head(items)[1])[1]
         IN  IF sourceDatabase \notin databaseSessions
             THEN IF Len(calls) + 1 = failAt
                  THEN [raised |-> TRUE, sessions |-> {},
                        calls |-> Append(calls, sourceDatabase)]
                  ELSE SessionsLoop(Tail(items), databaseSessions \cup {sourceDatabase},
                                    Append(calls, sourceDatabase), failAt)
             ELSE SessionsLoop(Tail(items), databaseSessions, calls, failAt)

getMsSqlSessionsForDatabasesNoCheck(m, failAt) == SessionsLoopNoCheck(m, {}, <<>>, failAt)

getMsSqlSessionsForDatabases(m, failAt) == SessionsLoop(m, {}, <<>>, failAt)

\* pd.read_sql(..., chunksize=size): the row ranges of the chunks, in order;
\* a result without rows is yielded as one chunk without rows
RECURSIVE ChunkRanges(_, _, _)
ChunkRanges(lo, n, size) ==
    IF lo > n THEN <<>>
    ELSE <<[lo |-> lo, hi |-> IF lo + size - 1 < n THEN lo + size - 1 ELSE n]>>
            \o ChunkRanges(lo + size, n, size)

ReadSql(n, size) == IF n = 0 THEN <<[lo |-> 1, hi |-> 0]>> ELSE ChunkRanges(1, n, size)

\* getMsSqlTableData: the chunk generator, or the wrapped exception
getMsSqlTableData(readOk, n, size) ==
    IF readOk
    THEN [raised |-> FALSE, none |-> FALSE, chunks |-> ReadSql(n, size)]
    ELSE [raised |-> TRUE, none |-> FALSE, chunks |-> <<>>]

\* getMsSqlTableDataTypes: r is what the catalog query does
getMsSqlTableDataTypes(r, table) ==
    CASE r = "raise" -> [raised |-> TRUE, value |-> <<>>,
                         logged |-> << <<"ERROR", LibraryError>> >>]
      [] r = "empty" -> [raised |-> TRUE, value |-> <<>>,
                         logged |-> << <<"WARNING", <<"No data fetched for data types.">> >>,
                                       <<"ERROR", EmptyTypesError>> >>]
      [] OTHER -> [raised |-> FALSE, value |-> TableColumns, logged |-> <<>>]

\* -------------------------------------------------- Destination Connector
Contains(text, word) == \E i \in DOMAIN text : text[i] = word

\* the status text of DROP TABLE IF EXISTS
DropStatus(table, existed, marked) ==
    IF ~marked THEN <<"Statement executed.">>
    ELSE IF existed THEN table \o <<" ", "successfully", " dropped.">>
    ELSE <<"Drop statement executed ", "successfully", " (">> \o table \o <<" already dropped).">>

\* deleteSfTable: r is what the DROP statement does
deleteSfTableKeepsTable(r, table, t) ==
    CASE r = "raise" -> [raised |-> TRUE, status |-> "", table |-> t]
      [] OTHER ->
            LET result == DropStatus(table, t.exists, r = "executed")
            IN  [raised |-> FALSE,
                 status |-> IF Contains(result, "successfully") THEN "Success" ELSE "Fail",
                 table |-> t]

deleteSfTable(r, table, t) ==
    CASE r = "raise" -> [raised |-> TRUE, status |-> "", table |-> t]
      [] OTHER ->
            LET result == DropStatus(table, t.exists, r = "executed")
            IN  [raised |-> FALSE,
                 status |-> IF Contains(result, "successfully") THEN "Success" ELSE "Fail",
                 table |-> IF r = "executed" THEN AbsentTable ELSE t]

\* DataFrame.withColumn on a column of the frame: the column is replaced;
\* Snowpark re-selects the replaced column after the others, other frames
\* keep its place, and the model admits both (inPlace)
WithColumn(cols, column, inPlace) ==
    IF inPlace /\ column \in Range(cols) THEN cols
    ELSE SelectSeq(cols, LAMBDA c : c # column) \o <<column>>

\* the typecast loop over sfDatatypes.items(): the column order it leaves
RECURSIVE CastColumns(_, _, _)
CastColumns(cols, items, inPlace) ==
    IF items = <<>> THEN cols
    ELSE LET column == Head(items)[1]
             dataType == Head(items)[2]
             asString == IF dataType = "TIMESTAMP"
                         THEN WithColumn(cols, column, inPlace) ELSE cols
         IN  CastColumns(WithColumn(asString, column, inPlace), Tail(items), inPlace)

\* the column list read back for the reordering
NewColumnsNever(k, t) == <<>>

NewColumns(k, t) == IF k > 0 THEN t.cols ELSE <<>>

\* snow_df.select(newColumns) when newColumns is not empty
Reorder(snowCols, newColumns) == IF Len(newColumns) > 0 THEN newColumns ELSE snowCols

SaveAsTableOverwrite(t, src, chunk, written) ==
    [exists |-> TRUE,
     cols |-> written,
     segs |-> <<[src |-> src, lo |-> chunk.lo, hi |-> chunk.hi, cols |-> written]>>]

\* save_as_table in append mode: the first append creates the table with the
\* chunk's columns; rows are laid out in the column order of the frame
SaveAsTable(t, src, chunk, written) ==
    [exists |-> TRUE,
     cols |-> IF t.exists THEN t.cols ELSE written,
     segs |-> Append(t.segs, [src |-> src, lo |-> chunk.lo, hi |-> chunk.hi, cols |-> written])]

Perms(s) == { [i \in DOMAIN s |-> s[p[i]]] : p \in Permutations(DOMAIN s) }

\* --------------------------------------------------------------- job driver
Init ==
    /\ run = 1
    /\ pc = "start"
    /\ mapping \in Mappings
    /\ dest \in [DestNames -> {AbsentTable, StaleTable}]
    /\ snowflake_session = "unbound"
    /\ mssql_sessions = [bound |-> FALSE, keys |-> {}]
    /\ opened = <<>>
    /\ idx = 1
    /\ mssqlDataTypes = <<>>
    /\ sfDatatypes = <<>>
    /\ chunks = <<>>
    /\ flag = 0
    /\ exc = <<>>
    /\ notifs = <<>>
    /\ log = <<>>
    /\ stage = [i \in DOMAIN mapping |-> "START"]
    /\ lastAppend = NoAppend
    /\ ops = <<>>
    /\ prevDest = dest

\* raise inside the try block: control goes to the except handler
Raise(e) == pc' = "handler" /\ exc' = e

SetStage(s) == stage' = [stage EXCEPT ![idx] = s]

\* main.py 30: snowflake_session = getSnowflakeSession(...)
GetSnowflakeSession ==
    /\ pc = "start"
    /\ \E ok \in BOOLEAN :
        IF ok
        THEN /\ snowflake_session' = "open"
             /\ pc' = "sessions"
             /\ UNCHANGED <<exc, log>>
        ELSE /\ log' = Append(log, <<"CRITICAL", LibraryError>>)
             /\ Raise(SfConnError)
             /\ UNCHANGED snowflake_session
    /\ UNCHANGED <<run, mapping, dest, mssql_sessions, opened, idx,
                   mssqlDataTypes, sfDatatypes, chunks, flag, notifs, stage,
                   lastAppend, ops, prevDest>>

\* main.py 33: mssql_sessions = getMsSqlSessionsForDatabases(...)
GetMsSqlSessions ==
    /\ pc = "sessions"
    /\ \E failAt \in 0..Len(mapping) :
        LET r == getMsSqlSessionsForDatabases(mapping, failAt)
        IN  /\ opened' = r.calls
            /\ IF r.raised
               THEN /\ log' = log \o << <<"CRITICAL", LibraryError>>,
                                        <<"CRITICAL", MsSqlConnError>> >>
                    /\ Raise(SessionsError)
                    /\ UNCHANGED mssql_sessions
               ELSE /\ mssql_sessions' = [bound |-> TRUE, keys |-> r.sessions]
                    /\ pc' = "for"
                    /\ UNCHANGED <<exc, log>>
    /\ UNCHANGED <<run, mapping, dest, snowflake_session, idx,
                   mssqlDataTypes, sfDatatypes, chunks, flag, notifs, stage,
                   lastAppend, ops, prevDest>>

\* main.py 35-56: the next item of mapping, its connection, its column types
FetchTypes ==
    /\ pc = "for"
    /\ idx <= Len(mapping)
    /\ LET msSqlTable == mapping[idx][1]
           parts == Split(msSqlTable)
           sourceDb == parts[1]
       IN  IF sourceDb \notin mssql_sessions.keys
           THEN /\ Raise(<<"KeyError">>)
                /\ SetStage("NAME_INVALID")
                /\ UNCHANGED <<mssqlDataTypes, sfDatatypes, log>>
           ELSE IF Len(parts) < 3
           THEN /\ Raise(IndexError)
                /\ SetStage("NAME_INVALID")
                /\ UNCHANGED <<mssqlDataTypes, sfDatatypes, log>>
           ELSE \E r \in {"raise", "empty", "ok"} :
                LET res == getMsSqlTableDataTypes(r, parts[3])
                IN  IF res.raised
                    THEN /\ log' = log \o res.logged
                         /\ Raise(TypesError(parts[3]))
                         /\ SetStage("TYPES_FAILED")
                         /\ UNCHANGED <<mssqlDataTypes, sfDatatypes>>
                    ELSE /\ mssqlDataTypes' = res.value
                         /\ sfDatatypes' = convertDatatypesFromMssqlToSf(res.value)
                         /\ SetStage("TYPES_FETCHED")
                         /\ pc' = "stream"
                         /\ UNCHANGED <<exc, log>>
    /\ UNCHANGED <<run, mapping, dest, snowflake_session, mssql_sessions,
                   opened, idx, chunks, flag, notifs, lastAppend, ops, prevDest>>

\* main.py 59-75: chunks = getMsSqlTableData(...) and the branch on None
StreamRows ==
    /\ pc = "stream"
    /\ \E readOk \in BOOLEAN, delivered \in BOOLEAN :
        LET parts == Split(mapping[idx][1])
            res == getMsSqlTableData(readOk, SourceRows(mapping[idx][1]), ChunkSize)
        IN  IF res.raised
            THEN /\ log' = Append(log, <<"ERROR", LibraryError>>)
                 /\ Raise(TableDataError)
                 /\ SetStage("READ_FAILED")
                 /\ UNCHANGED <<chunks, notifs, idx>>
            ELSE IF res.none
            THEN /\ log' = Append(log, <<"WARNING", <<"Something wrong with getting Data">>
                                                      \o parts[3] \o parts[1]>>)
                 /\ notifs' = Append(notifs,
                        sendEmailNotif(SubjectFailed, ReadFailedBody(parts[3], parts[1]),
                                       delivered))
                 /\ SetStage("NO_DATA")
                 /\ IF delivered
                    THEN pc' = "for" /\ idx' = idx + 1 /\ UNCHANGED exc
                    ELSE Raise(LibraryError) /\ UNCHANGED idx
                 /\ UNCHANGED chunks
            ELSE /\ chunks' = res.chunks
                 /\ SetStage("DATA_STREAMED")
                 /\ pc' = "drop"
                 /\ UNCHANGED <<exc, log, notifs, idx>>
    /\ UNCHANGED <<run, mapping, dest, snowflake_session, mssql_sessions,
                   opened, mssqlDataTypes, sfDatatypes, flag, lastAppend, ops, prevDest>>

StatusIsAnything(status) == TRUE

\* main.py 82: if status == 'Success'
StatusIsSuccess(status) == status = "Success"

\* main.py 77-82: status = deleteSfTable(...), flag = 0, the branch on status
DeleteSfTable ==
    /\ pc = "drop"
    /\ \E r \in {"executed", "nomarker", "raise"} :
        LET sfTable == mapping[idx][2]
            res == deleteSfTable(r, sfTable, dest[sfTable])
        IN  /\ dest' = [dest EXCEPT ![sfTable] = res.table]
            /\ IF res.raised
               THEN /\ log' = Append(log, <<"ERROR", LibraryError>>)
                    /\ Raise(DeleteError)
                    /\ SetStage("DROP_RAISED")
                    /\ UNCHANGED <<flag, ops>>
               ELSE /\ flag' = 0
                    /\ ops' = Append(ops, [pair |-> idx, op |-> "drop", table |-> sfTable])
                    /\ UNCHANGED <<exc, log>>
                    /\ SetStage(IF res.status = "Success"
                                THEN "DEST_RESET_OK" ELSE "DEST_RESET_FAILED")
                    /\ pc' = IF StatusIsSuccess(res.status) THEN "load" ELSE "drop_failed"
    /\ UNCHANGED <<run, mapping, snowflake_session, mssql_sessions, opened,
                   idx, mssqlDataTypes, sfDatatypes, chunks, notifs, lastAppend,
                   prevDest>>

\* main.py 117-125: the branch status == 'Fail'
NotifyDropFailed ==
    /\ pc = "drop_failed"
    /\ \E delivered \in BOOLEAN :
        /\ log' = Append(log, <<"WARNING", <<"Failed to delete ">> \o mapping[idx][2]>>)
        /\ notifs' = Append(notifs,
               sendEmailNotif(SubjectFailed, DropFailedBody(mapping[idx][2]), delivered))
        /\ IF delivered
           THEN pc' = "for" /\ idx' = idx + 1 /\ UNCHANGED exc
           ELSE Raise(LibraryError) /\ UNCHANGED idx
    /\ UNCHANGED <<run, mapping, dest, snowflake_session, mssql_sessions,
                   opened, mssqlDataTypes, sfDatatypes, chunks, flag, stage,
                   lastAppend, ops, prevDest>>

\* main.py 85-115: one pass of the loop over the chunks
LoadChunk ==
    /\ pc = "load"
    /\ chunks # <<>>
    /\ \E dfColumns \in Perms(DictKeys(mssqlDataTypes)), inPlace \in BOOLEAN, ok \in BOOLEAN :
        LET sfTable == mapping[idx][2]
            renamed == [i \in DOMAIN dfColumns |-> Upper(dfColumns[i])]
            castable == \A i \in DOMAIN sfDatatypes : sfDatatypes[i][1] \in Range(renamed)
            snowCols == CastColumns(renamed, sfDatatypes, inPlace)
            readable == flag = 0 \/ dest[sfTable].exists
            newColumns == NewColumns(flag, dest[sfTable])
            written == Reorder(snowCols, newColumns)
        IN  IF ok /\ castable /\ readable /\ Range(written) \subseteq Range(snowCols)
            THEN /\ dest' = [dest EXCEPT ![sfTable] =
                                SaveAsTable(@, mapping[idx][1], Head(chunks), written)]
                 /\ lastAppend' = [pair |-> idx, k |-> flag, snowCols |-> snowCols,
                                   destCols |-> dest[sfTable].cols,
                                   newColumns |-> newColumns, written |-> written]
                 /\ ops' = Append(ops, [pair |-> idx, op |-> "append", table |-> sfTable])
                 /\ chunks' = Tail(chunks)
                 /\ flag' = flag + 1
                 /\ SetStage("LOADING")
                 /\ UNCHANGED <<pc, exc>>
            ELSE /\ Raise(LibraryError)
                 /\ SetStage("LOAD_FAILED")
                 /\ UNCHANGED <<dest, lastAppend, ops, chunks, flag>>
    /\ UNCHANGED <<run, mapping, snowflake_session, mssql_sessions, opened,
                   idx, mssqlDataTypes, sfDatatypes, notifs, log, prevDest>>

\* main.py 85: the generator is exhausted, the for loop goes to the next item
EndOfChunks ==
    /\ pc = "load"
    /\ chunks = <<>>
    /\ SetStage("DONE")
    /\ idx' = idx + 1
    /\ pc' = "for"
    /\ UNCHANGED <<run, mapping, dest, snowflake_session, mssql_sessions,
                   opened, mssqlDataTypes, sfDatatypes, chunks, flag, exc, notifs,
                   log, lastAppend, ops, prevDest>>

\* main.py 126-131: the final notification after the loop
SendSuccess ==
    /\ pc = "for"
    /\ idx > Len(mapping)
    /\ \E delivered \in BOOLEAN :
        /\ notifs' = Append(notifs,
               sendEmailNotif(SubjectSuccess, SuccessBody(Len(mapping)), delivered))
        /\ IF delivered
           THEN pc' = "done" /\ UNCHANGED exc
           ELSE Raise(LibraryError)
    /\ UNCHANGED <<run, mapping, dest, snowflake_session, mssql_sessions,
                   opened, idx, mssqlDataTypes, sfDatatypes, chunks, flag, log,
                   stage, lastAppend, ops, prevDest>>

\* main.py 133-142: except Exception as e
TopLevelHandler ==
    /\ pc = "handler"
    /\ log' = Append(log, <<"ERROR", exc>>)
    /\ LET e == StripQuotes(exc)
       IN  IF snowflake_session = "unbound"
           THEN /\ pc' = "crashed"
                /\ exc' = NameError
                /\ UNCHANGED notifs
           ELSE \E delivered \in BOOLEAN :
                /\ notifs' = Append(notifs,
                       sendEmailNotif(SubjectFailed, FatalBody(e), delivered))
                /\ IF delivered
                   THEN pc' = "done" /\ exc' = <<>>
                   ELSE pc' = "crashed" /\ exc' = LibraryError
    /\ UNCHANGED <<run, mapping, dest, snowflake_session, mssql_sessions,
                   opened, idx, mssqlDataTypes, sfDatatypes, chunks, flag, stage,
                   lastAppend, ops, prevDest>>

\* the job is started again on the same configuration and the same source
Rerun ==
    /\ pc \in {"done", "crashed"}
    /\ run < MaxRuns
    /\ run' = run + 1
    /\ pc' = "start"
    /\ snowflake_session' = "unbound"
    /\ mssql_sessions' = [bound |-> FALSE, keys |-> {}]
    /\ opened' = <<>>
    /\ idx' = 1
    /\ mssqlDataTypes' = <<>>
    /\ sfDatatypes' = <<>>
    /\ chunks' = <<>>
    /\ flag' = 0
    /\ exc' = <<>>
    /\ notifs' = <<>>
    /\ log' = <<>>
    /\ stage' = [i \in DOMAIN mapping |-> "START"]
    /\ lastAppend' = NoAppend
    /\ ops' = <<>>
    /\ prevDest' = dest
    /\ UNCHANGED <<mapping, dest>>

\* -------------------------------------------- the Type Mapper on its own
ConvNames == { <<"a">>, <<"A">>, <<"I", "d">> }

ConvTokens == MappedTokens \cup {"xml", "uniqueidentifier", "INT"}

\* the input dicts: at most MaxConvCols columns, names distinct
ConvInputs ==
    UNION { { d \in [1..n -> ConvNames \X ConvTokens] : NoDup(DictKeys(d)) }
            : n \in 0..MaxConvCols }

InitConvert ==
    /\ run = 1
    /\ pc = "convert"
    /\ mapping = <<>>
    /\ dest = [t \in DestNames |-> AbsentTable]
    /\ snowflake_session = "unbound"
    /\ mssql_sessions = [bound |-> FALSE, keys |-> {}]
    /\ opened = <<>>
    /\ idx = 1
    /\ mssqlDataTypes \in ConvInputs
    /\ sfDatatypes = <<>>
    /\ chunks = <<>>
    /\ flag = 0
    /\ exc = <<>>
    /\ notifs = <<>>
    /\ log = <<>>
    /\ stage = <<>>
    /\ lastAppend = NoAppend
    /\ ops = <<>>
    /\ prevDest = dest

\* main.py 56: sfDatatypes = convertDatatypesFromMssqlToSf(mssqlDataTypes)
Convert ==
    /\ pc = "convert"
    /\ sfDatatypes' = convertDatatypesFromMssqlToSf(mssqlDataTypes)
    /\ pc' = "converted"
    /\ UNCHANGED <<run, mapping, dest, snowflake_session, mssql_sessions, opened,
                   idx, mssqlDataTypes, chunks, flag, exc, notifs, log, stage,
                   lastAppend, ops, prevDest>>

NextConvert == Convert

SpecConvert == InitConvert /\ [][NextConvert]_vars

Next ==
    \/ GetSnowflakeSession
    \/ GetMsSqlSessions
    \/ FetchTypes
    \/ StreamRows
    \/ DeleteSfTable
    \/ NotifyDropFailed
    \/ LoadChunk
    \/ EndOfChunks
    \/ SendSuccess
    \/ TopLevelHandler
    \/ Rerun

Spec == Init /\ [][Next]_vars

\* ------------------------------------------------------------------ claims
Terminated == pc \in {"done", "crashed"}

Pairs == DOMAIN mapping

Count(seq, P(_)) == Cardinality({i \in DOMAIN seq : P(seq[i])})

IsSuccessNotif(n) == n.subject = <<"Snowpark Job MSSQL to SF : Success">>

IsFatalNotif(n) ==
    /\ n.subject = <<"Snowpark Job MSSQL to SF : Failed">>
    /\ n.body[1] = "Job has failed due to reason : "

SuccessCount == Count(notifs, IsSuccessNotif)

FatalCount == Count(notifs, IsFatalNotif)

Logged(level, text) == \E i \in DOMAIN log : log[i] = <<level, text>>

\* a text with its single quotes left out
NoQuote(text) == SelectSeq(text, LAMBDA c : c # "'")

\* the tokens of a qualified name before its first dot
RECURSIVE FirstSegment(_)
FirstSegment(name) ==
    IF name = <<>> \/ Head(name) = "." THEN <<>>
    ELSE <<Head(name)>> \o FirstSegment(Tail(name))

\* the tokens of a qualified name after its last dot
RECURSIVE LastSegment(_)
LastSegment(name) ==
    IF name = <<>> \/ name[Len(name)] = "." THEN <<>>
    ELSE Append(LastSegment(SubSeq(name, 1, Len(name) - 1)), name[Len(name)])

OpsOfPair(i) == {k \in DOMAIN ops : ops[k].pair = i}

\* C1: when opening the destination session raises, the run sends exactly one
\* job-fatal failure notification, calls no source connection into use, and
\* terminates with the exception logged.
C1_SessionFailureNotified ==
    (Terminated /\ snowflake_session = "unbound") =>
        /\ FatalCount = 1
        /\ opened = <<>>
        /\ ops = <<>>
        /\ Logged("ERROR", <<"Snowflake Connection error : Aborting.">>)

\* C2: when the source read of a pair cannot be established, no exception is
\* raised and the job does not abort: one failure notification names the table
\* and the database, the pair's destination is neither dropped nor written,
\* the remaining pairs are processed and the final summary is sent.
C2_ReadFailureIsPerTable ==
    \A i \in Pairs :
        stage[i] = "READ_FAILED" =>
            /\ ~(pc = "handler" /\ idx = i)
            /\ OpsOfPair(i) = {}
            /\ Terminated =>
                /\ \E k \in DOMAIN notifs :
                        /\ notifs[k].subject = <<"Snowpark Job MSSQL to SF : Failed">>
                        /\ notifs[k].body[1] = "Error Occured while fetching table "
                /\ \A j \in Pairs : j > i => stage[j] # "START"
                /\ SuccessCount = 1

DropFailed(i) == stage[i] \in {"DEST_RESET_FAILED", "DROP_RAISED"}

NamesDropOf(n, table) ==
    /\ n.subject = <<"Snowpark Job MSSQL to SF : Failed">>
    /\ n.body = <<"Error Occured while deleting table ">> \o table
                    \o <<". Please Check Logs.\n", Now>>

\* C3: whenever the drop of a pair's destination table does not succeed (no
\* success marker in the result, or the statement failing), no exception reaches
\* the top-level handler, exactly one failure notification names the table, no
\* chunk is appended to it and the job goes on with the next pair (stated for
\* runs in which every notification is delivered).
C3_DropFailureIsPerTable ==
    (\A k \in DOMAIN notifs : notifs[k].delivered) =>
        \A i \in Pairs :
            DropFailed(i) =>
                /\ ~(pc = "handler" /\ idx = i)
                /\ \A k \in OpsOfPair(i) : ops[k].op # "append"
                /\ (idx > i \/ Terminated) =>
                    LET sfTable == mapping[i][2]
                        sent == {k \in DOMAIN notifs : NamesDropOf(notifs[k], sfTable)}
                        failed == {j \in Pairs : mapping[j][2] = sfTable /\ DropFailed(j)}
                    IN  Cardinality(sent) = Cardinality(failed)
                /\ (Terminated /\ i < Len(mapping)) => stage[i + 1] # "START"

\* C4: when fetching the column types of a pair fails (the catalog query
\* raising or returning no column), the job aborts: the pair's destination is
\* neither dropped nor written, no later pair is processed, no success summary
\* is sent, and the handler issues a single failure notification whose body is
\* the exception message without its single quotes.
C4_TypeFetchFailureAborts ==
    \A i \in Pairs :
        stage[i] = "TYPES_FAILED" =>
            /\ pc \in {"handler", "done", "crashed"}
            /\ \A k \in DOMAIN ops : ops[k].pair < i
            /\ \A j \in Pairs : j > i => stage[j] = "START"
            /\ SuccessCount = 0
            /\ pc = "handler" => FatalCount = 0
            /\ Terminated =>
                /\ FatalCount = 1
                /\ LET n == notifs[Len(notifs)]
                   IN  /\ IsFatalNotif(n)
                       /\ n.body =
                            <<"Job has failed due to reason : ",
                              "Something wrong while fetching datatypes of MsSql table ">>
                            \o NoQuote(LastSegment(mapping[i][1]))
                            \o <<": Aborting.", "\nPlease check logs.\n", Now>>
                       /\ ~Contains(n.body, "'")

\* a type fetch that found no column for a table with a quote in its name has
\* aborted the job before the last pair, and the failure has been notified
C4_Witness ==
    /\ pc = "done"
    /\ Len(mapping) = 2
    /\ stage[1] = "TYPES_FAILED"
    /\ Contains(mapping[1][1], "'")
    /\ Logged("ERROR", <<"Datatype Dataframe is empty. Aborting">>)
    /\ FatalCount = 1

\* C5: every run that terminates has issued exactly one job-level summary
\* notification: the success summary or the job-fatal failure, never both and
\* never neither.
C5_ExactlyOneSummary == Terminated => SuccessCount + FatalCount = 1

\* C6: a run without job-fatal exception issues exactly one success summary,
\* after the last pair, and the count it reports is the number of configured
\* pairs, however many of them ended in a per-table failure.
C6_SuccessReportsConfiguredCount ==
    (pc = "done" /\ FatalCount = 0) =>
        /\ SuccessCount = 1
        /\ \A i \in Pairs : stage[i] \in {"DONE", "DEST_RESET_FAILED", "NO_DATA"}
        /\ LET n == notifs[Len(notifs)]
           IN  /\ IsSuccessNotif(n)
               /\ n.body = <<"Successfully loaded ", ToString(Len(mapping)),
                             " tables from MS-SQL Server to Snowflake. \n", Now>>

\* both configured pairs ended in a drop failure and the summary was still sent
C6_Witness ==
    /\ pc = "done"
    /\ FatalCount = 0
    /\ Len(mapping) = 2
    /\ \A i \in Pairs : stage[i] = "DEST_RESET_FAILED"
    /\ SuccessCount = 1

\* the fixed table of the Type Mapper, as the specification gives it
TableType(token) ==
    CASE token \in {"int", "bigint", "smallint", "tinyint", "money", "smallmoney"} -> "NUMBER"
      [] token \in {"numeric", "decimal", "float", "real"} -> "FLOAT"
      [] token = "bit" -> "BOOLEAN"
      [] token \in {"char", "varchar", "text", "nchar", "nvarchar", "ntext"} -> "STRING"
      [] token = "date" -> "DATE"
      [] token = "time" -> "TIME"
      [] token \in {"datetime", "datetime2", "timestamp"} -> "TIMESTAMP"
      [] OTHER -> "STRING"

DestinationTypes == {"NUMBER", "FLOAT", "BOOLEAN", "STRING", "DATE", "TIME", "TIMESTAMP"}

ValuesInDestinationTypes ==
    \A k \in DOMAIN sfDatatypes : sfDatatypes[k][2] \in DestinationTypes

C8_OneConnectionPerDatabase ==
    LET dbs == {FirstSegment(mapping[i][1]) : i \in Pairs}
    IN  /\ NoDup(opened)
        /\ Range(opened) \subseteq dbs
        /\ mssql_sessions.bound =>
            /\ mssql_sessions.keys = dbs
            /\ Range(opened) = dbs
            /\ Len(opened) = Cardinality(dbs)
        /\ (snowflake_session = "open" /\ ~mssql_sessions.bound /\ pc # "sessions") =>
            /\ pc \in {"handler", "done", "crashed"}
            /\ \A i \in Pairs : stage[i] = "START"
            /\ ops = <<>>
        /\ exc # <<"KeyError">>
        /\ ~Logged("ERROR", <<"KeyError">>)

\* two tables of one database are configured, one connection was opened and
\* the second pair has found it in the registry
C8_Witness ==
    /\ Len(mapping) = 2
    /\ FirstSegment(mapping[1][1]) = FirstSegment(mapping[2][1])
    /\ mssql_sessions.bound
    /\ Len(opened) = 1
    /\ idx = 2
    /\ stage[2] = "TYPES_FETCHED"

\* C9: the first chunk of a table is appended in its own column order; every
\* later chunk is reordered to the column order read back from the
\* destination table before it is appended, so all chunks of the table lie in
\* the column order of the first one.
C9_ChunksFollowFirstChunkOrder ==
    /\ lastAppend.pair # 0 =>
        /\ lastAppend.k = 0 =>
            /\ lastAppend.newColumns = <<>>
            /\ lastAppend.written = lastAppend.snowCols
        /\ lastAppend.k > 0 =>
            /\ lastAppend.destCols # <<>>
            /\ lastAppend.newColumns = lastAppend.destCols
            /\ lastAppend.written = lastAppend.destCols
    /\ \A t \in DestNames :
        \A k \in DOMAIN dest[t].segs :
            /\ dest[t].segs[k].cols = dest[t].segs[1].cols
            /\ dest[t].segs[k].cols = dest[t].cols

\* a later chunk arrived in another column order than the destination's and
\* was written in the destination's
C9_Witness ==
    /\ lastAppend.pair # 0
    /\ lastAppend.k = 2
    /\ lastAppend.snowCols # lastAppend.written
    /\ Len(dest[mapping[lastAppend.pair][2]].segs) = 3

RECURSIVE TotalRows(_)
TotalRows(segs) ==
    IF segs = <<>> THEN 0
    ELSE Head(segs).hi - Head(segs).lo + 1 + TotalRows(Tail(segs))

\* the rows of a table: the row ranges appended to it, with their source
RowsOf(t) == [k \in DOMAIN t.segs |-> <<t.segs[k].src, t.segs[k].lo, t.segs[k].hi>>]

\* the table holds the rows 1..n of the source table src, each once, and no
\* other: its row ranges are of src, start at 1, follow one another and end at n
HoldsExactly(t, src, n) ==
    /\ t.exists
    /\ t.segs # <<>>
    /\ TotalRows(t.segs) = n
    /\ t.segs[1].lo = 1
    /\ t.segs[Len(t.segs)].hi = n
    /\ \A k \in DOMAIN t.segs :
        /\ t.segs[k].src = src
        /\ t.segs[k].hi - t.segs[k].lo + 1 <= 500
        /\ k > 1 => t.segs[k].lo = t.segs[k - 1].hi + 1

LastForTable(i) == \A j \in Pairs : j > i => mapping[j][2] # mapping[i][2]

AllDone == \A i \in Pairs : stage[i] = "DONE"

\* C10: when a pair has been processed to DONE its destination table holds
\* exactly the rows of the source table and nothing from before the run; a
\* run that loads every pair leaves each destination table with the rows of
\* the last pair mapped to it, and run again on the unchanged source leaves
\* the same rows as the run before.
C10_FullReplace ==
    /\ (pc = "for" /\ idx > 1 /\ stage[idx - 1] = "DONE") =>
            HoldsExactly(dest[mapping[idx - 1][2]], mapping[idx - 1][1],
                         SourceRows(mapping[idx - 1][1]))
    /\ (pc = "done" /\ AllDone) =>
        /\ \A i \in Pairs :
            LastForTable(i) =>
                HoldsExactly(dest[mapping[i][2]], mapping[i][1], SourceRows(mapping[i][1]))
        /\ (run > 1 /\ \A i \in Pairs : LastForTable(i) =>
                HoldsExactly(prevDest[mapping[i][2]], mapping[i][1], SourceRows(mapping[i][1])))
            => \A i \in Pairs :
                RowsOf(dest[mapping[i][2]]) = RowsOf(prevDest[mapping[i][2]])

\* the job ran twice to completion on a source table of several chunks: the
\* table holds the rows of one load, as after the first run
C10_Witness ==
    /\ run = 2
    /\ pc = "done"
    /\ Len(mapping) = 2
    /\ AllDone
    /\ \E i \in Pairs :
        /\ SourceRows(mapping[i][1]) = MaxRows
        /\ LastForTable(i)
        /\ Len(dest[mapping[i][2]].segs) = 3
        /\ TotalRows(dest[mapping[i][2]].segs) = MaxRows
        /\ HoldsExactly(prevDest[mapping[i][2]], mapping[i][1], MaxRows)

\* the order in which a pair passes its steps: type fetch, stream open, drop, appends
StageOrder ==
    {<<"START", "TYPES_FETCHED">>, <<"START", "TYPES_FAILED">>, <<"START", "NAME_INVALID">>,
     <<"TYPES_FETCHED", "DATA_STREAMED">>, <<"TYPES_FETCHED", "READ_FAILED">>,
     <<"TYPES_FETCHED", "NO_DATA">>,
     <<"DATA_STREAMED", "DEST_RESET_OK">>, <<"DATA_STREAMED", "DEST_RESET_FAILED">>,
     <<"DATA_STREAMED", "DROP_RAISED">>,
     <<"DEST_RESET_OK", "LOADING">>, <<"DEST_RESET_OK", "LOAD_FAILED">>,
     <<"LOADING", "LOADING">>, <<"LOADING", "LOAD_FAILED">>, <<"LOADING", "DONE">>}

IsPerTableNotif(n) == ~IsSuccessNotif(n) /\ ~IsFatalNotif(n)

\* the pairs whose drop-failed notification has been issued
NotifiedPairs ==
    {j \in Pairs : stage[j] = "DEST_RESET_FAILED" /\ (j < idx \/ pc # "drop_failed")}

\* in every state: the pairs before the current one are finished, those after
\* it untouched; the statements on the destination are grouped by pair in
\* mapping order (an entry opens the group of a later pair with a drop, or
\* continues the group of its predecessor with an append), on the pair's own table; the
\* per-table notifications are those of the pairs whose drop failed, in order
SequentialState ==
    /\ \A j \in Pairs :
        /\ j > idx => stage[j] = "START"
        /\ j < idx => stage[j] \in {"DONE", "DEST_RESET_FAILED", "NO_DATA"}
    /\ \A a \in DOMAIN ops :
        /\ ops[a].pair \in Pairs
        /\ ops[a].pair <= idx
        /\ ops[a].table = mapping[ops[a].pair][2]
        /\ IF a = 1 \/ ops[a - 1].pair # ops[a].pair
           THEN /\ ops[a].op = "drop"
                /\ a > 1 => ops[a - 1].pair < ops[a].pair
           ELSE ops[a].op = "append"
    /\ LET sent == SelectSeq(notifs, IsPerTableNotif)
           notified == NotifiedPairs
       IN  /\ Len(sent) = Cardinality(notified)
           /\ \A j \in notified :
                NamesDropOf(sent[Cardinality({m \in notified : m <= j})], mapping[j][2])

\* in every step of a run: only the current pair advances, in the order of
\* its steps; the destination changes by one recorded statement at a time; a
\* drop comes right after the stream was opened; an append comes only after
\* the drop of this pair returned Success, and appends the generator's next
\* chunk, which starts where the chunk before it ended
SequentialStep ==
    run' = run =>
        /\ \A i \in Pairs :
            (stage'[i] # stage[i] \/ (i = idx /\ ops' # ops)) =>
                /\ i = idx
                /\ <<stage[i], stage'[i]>> \in StageOrder
        /\ dest' # dest => ops' # ops
        /\ ops' # ops =>
            /\ Len(ops') = Len(ops) + 1
            /\ SubSeq(ops', 1, Len(ops)) = ops
            /\ LET e == ops'[Len(ops')]
                   t == mapping[idx][2]
               IN  /\ e.pair = idx
                   /\ \A u \in DestNames : u # t => dest'[u] = dest[u]
                   /\ e.op = "drop" =>
                        /\ stage[idx] = "DATA_STREAMED"
                        /\ stage'[idx] \in {"DEST_RESET_OK", "DEST_RESET_FAILED"}
                   /\ e.op = "append" =>
                        /\ stage[idx] \in {"DEST_RESET_OK", "LOADING"}
                        /\ chunks # <<>>
                        /\ chunks' = Tail(chunks)
                        /\ Len(dest'[t].segs) = Len(dest[t].segs) + 1
                        /\ SubSeq(dest'[t].segs, 1, Len(dest[t].segs)) = dest[t].segs
                        /\ LET seg == dest'[t].segs[Len(dest'[t].segs)]
                           IN  /\ seg.src = mapping[idx][1]
                               /\ seg.lo = Head(chunks).lo
                               /\ seg.hi = Head(chunks).hi
                               /\ seg.lo = IF stage[idx] = "DEST_RESET_OK" THEN 1
                                           ELSE dest[t].segs[Len(dest[t].segs)].hi + 1
                               /\ stage[idx] = "DEST_RESET_OK" => dest[t].segs = <<>>

\* C11: processing is sequential and ordered: pairs are handled in mapping
\* order and every drop, append and per-table notification of a pair comes
\* before any operation of the next pair; within a pair the order is type
\* fetch, stream open, drop, appends; chunks are appended in source order one
\* at a time; no chunk is appended to a table unless the drop of that table
\* returned Success earlier in the same run.
C11_SequentialOrdered == []SequentialState /\ [][SequentialStep]_vars

\* the second pair is being loaded, its second chunk appended, after the first
\* pair ended with a failed drop and its notification
C11_Witness ==
    /\ Len(mapping) = 2
    /\ idx = 2
    /\ stage[1] = "DEST_RESET_FAILED"
    /\ stage[2] = "LOADING"
    /\ Len(SelectSeq(notifs, IsPerTableNotif)) = 1
    /\ Len(ops) = 4
    /\ ops[4].op = "append"

\* the table of pair i holds the first k chunks of the pair's source and no
\* other row; with k = 0 it is absent
HoldsFirstChunks(i, k) ==
    LET t == dest[mapping[i][2]]
        n == SourceRows(mapping[i][1])
    IN  /\ t.exists = (k > 0)
        /\ Len(t.segs) = k
        /\ \A c \in DOMAIN t.segs :
            /\ t.segs[c].src = mapping[i][1]
            /\ t.segs[c].lo = (c - 1) * 500 + 1
            /\ t.segs[c].hi = IF c * 500 < n THEN c * 500 ELSE n

\* the load of pair i has failed: nothing after it is processed and the
\* failure is reported by the job-fatal notification, never by a success one
FailureIsJobFatal(i) ==
    /\ pc \in {"handler", "done", "crashed"}
    /\ \A j \in Pairs : j > i => stage[j] = "START"
    /\ \A a \in DOMAIN ops : ops[a].pair <= i
    /\ SuccessCount = 0
    /\ pc = "handler" => FatalCount = 0
    /\ Terminated => (FatalCount = 1 /\ IsFatalNotif(notifs[Len(notifs)]))

\* C12 as stated: after a load failure of a pair its table is absent (no
\* chunk appended yet) or holds exactly the chunks appended before the failing
\* one; the table of every earlier loaded pair is as loaded, no later pair is
\* processed and the job-fatal notification reports the failure.
C12_NoRollback ==
    \A i \in Pairs :
        stage[i] = "LOAD_FAILED" =>
            /\ HoldsFirstChunks(i, flag)
            /\ FailureIsJobFatal(i)
            /\ \A j \in Pairs :
                (j < i /\ stage[j] = "DONE") =>
                    HoldsExactly(dest[mapping[j][2]], mapping[j][1], SourceRows(mapping[j][1]))

\* C12 as amended: the same, the tables of earlier loaded pairs being as
\* loaded when no later pair up to the failing one is mapped to the same table.
C12_NoRollbackOfOtherTables ==
    \A i \in Pairs :
        stage[i] = "LOAD_FAILED" =>
            /\ HoldsFirstChunks(i, flag)
            /\ FailureIsJobFatal(i)
            /\ \A j \in Pairs :
                (/\ j < i
                 /\ stage[j] = "DONE"
                 /\ \A m \in Pairs : (j < m /\ m <= i) => mapping[m][2] # mapping[j][2]) =>
                    HoldsExactly(dest[mapping[j][2]], mapping[j][1], SourceRows(mapping[j][1]))

\* the third chunk of the second pair failed after the first pair was loaded
\* into another table: two chunks are left, and the failure was notified
C12_Witness ==
    /\ pc = "done"
    /\ Len(mapping) = 2
    /\ stage[1] = "DONE"
    /\ stage[2] = "LOAD_FAILED"
    /\ mapping[1][2] # mapping[2][2]
    /\ flag = 2
    /\ Len(dest[mapping[2][2]].segs) = 2
    /\ FatalCount = 1

====
